---- MODULE Spec2Model ----
(***************************************************************************)
(* Model of the comment-rader batch classification pipeline:               *)
(*   - the /api/analyze route (POST): sort, batching, concurrency windows, *)
(*     per-batch try/catch, positional merge into analyzedComments;        *)
(*   - the three engines' analyzeAxisBatch (AnalysisService, GroqEngine,   *)
(*     OpenAIEngine) over an abstract provider outcome;                    *)
(*   - stance-logic: synthesizeStance, synthesizeBinaryStance,             *)
(*     applyStanceSynthesis, sortCommentsByThreadOrder;                    *)
(*   - the engines' like-count weighting.                                  *)
(*                                                                         *)
(* Numbers.  Scores and intensities are JavaScript doubles in the source.  *)
(* The model keeps them as exact integers in units of 1/One, with One a    *)
(* common multiple of 10 (provider values are drawn in tenths), of 7 (the  *)
(* Groq normaliser), of 5 (the 0.2 damping factor) and of 20 (the 0.85 of  *)
(* labelToScore), and draws like counts from values whose                  *)
(* log10(likeCount + 1) is an integer, so every product and quotient the   *)
(* code computes is exact in the model.                                    *)
(***************************************************************************)
EXTENDS Integers, Sequences, FiniteSets, TLC

----------------------------------------------------------------------------
(* Scale and absent values *)

One == 7 * 5 * 20

Tenth(n) == n * (One \div 10)

\* JavaScript `undefined` for string-valued and number-valued fields.
NoStr == "undefined"
NoNum == 0 - (1000 * One)

\* A comment without parentId (top-level) and "no such element".
NoParent == 0
NotFound == 0

Truthy(s) == s # NoStr /\ s # ""

\* x || 0 for a numeric field that may be undefined.
OrZero(x) == IF x = NoNum THEN 0 ELSE x

Max2(a, b) == IF a >= b THEN a ELSE b
Min2(a, b) == IF a <= b THEN a ELSE b

\* Index of the last element with the given key (Map.set overwrites, so the
\* last inserted entry for a key is the one Map.get returns); NotFound if none.
LastIndexWithId(s, id) ==
    LET hits == {k \in 1..Len(s) : s[k].id = id}
    IN IF hits = {} THEN NotFound ELSE CHOOSE k \in hits : \A m \in hits : m <= k

LastIndexWithCommentId(s, id) ==
    LET hits == {k \in 1..Len(s) : s[k].commentId = id}
    IN IF hits = {} THEN NotFound ELSE CHOOSE k \in hits : \A m \in hits : m <= k

\* Array.prototype.find: the first element that matches; NotFound if none.
FirstIndexWithCommentId(s, id) ==
    LET hits == {k \in 1..Len(s) : s[k].commentId = id}
    IN IF hits = {} THEN NotFound ELSE CHOOSE k \in hits : \A m \in hits : k <= m

----------------------------------------------------------------------------
(* stance-logic *)

Directions == {"support", "oppose", "neutral", "unknown"}
ReplyRelations == {"agree", "disagree", "clarify", "question", "unrelated"}

synthesizeStance(parentLabel, replyRelation) ==
    IF replyRelation \in {"unrelated", "clarify", "question"} THEN "Neutral"
    ELSE IF replyRelation = "disagree" THEN
        IF parentLabel = "Support" THEN "Oppose"
        ELSE IF parentLabel = "Oppose" THEN "Support"
        ELSE IF parentLabel = "Neutral" THEN "Neutral"
        ELSE "Unknown"
    ELSE IF replyRelation = "agree" THEN parentLabel
    ELSE "Unknown"

synthesizeBinaryStanceNoFlip(parent, replyRelation) ==
    IF replyRelation \in {"unrelated", "clarify", "question"}
    THEN [direction |-> "neutral", intensity |-> 0]
    ELSE IF replyRelation \in {"agree", "disagree"} THEN parent
    ELSE [direction |-> "unknown", intensity |-> 0]

synthesizeBinaryStance(parent, replyRelation) ==
    IF replyRelation \in {"unrelated", "clarify", "question"}
    THEN [direction |-> "neutral", intensity |-> 0]
    ELSE IF replyRelation = "agree" THEN parent
    ELSE IF replyRelation = "disagree" THEN
        [direction |-> IF parent.direction = "support" THEN "oppose"
                       ELSE IF parent.direction = "oppose" THEN "support"
                       ELSE parent.direction,
         intensity |-> parent.intensity]
    ELSE [direction |-> "unknown", intensity |-> 0]

DirMultiplier(direction) ==
    IF direction = "support" THEN 1 ELSE IF direction = "oppose" THEN 0 - 1 ELSE 0

\* A synthesizer that corrects every reply carrying a relation, whether or not
\* its parent has an analysis.
SynthesizeOneAssumeParent(analysis, analyses, comments) ==
    LET ci == LastIndexWithId(comments, analysis.commentId) IN
    IF ci = NotFound \/ comments[ci].parentId = NoParent THEN analysis
    ELSE IF ~Truthy(analysis.replyRelation) THEN analysis
    ELSE [analysis EXCEPT
            !.label = synthesizeStance("Unknown", analysis.replyRelation),
            !.stanceDirection = "unknown",
            !.stanceIntensity = 0,
            !.score = 0]

\* The body of the analyses.map callback of applyStanceSynthesis.  Both maps
\* are built from the arguments before the map runs, so the parent's analysis
\* is the one passed in, not the one being produced.
SynthesizeOne(analysis, analyses, comments) ==
    LET ci == LastIndexWithId(comments, analysis.commentId) IN
    IF ci = NotFound \/ comments[ci].parentId = NoParent THEN analysis
    ELSE
    LET pi == LastIndexWithCommentId(analyses, comments[ci].parentId) IN
    IF pi = NotFound THEN analysis
    ELSE IF ~Truthy(analysis.replyRelation) THEN analysis
    ELSE
    LET parentAnalysis == analyses[pi]
        relation == analysis.replyRelation
        synthesizedLabel ==
            synthesizeStance(IF Truthy(parentAnalysis.label)
                             THEN parentAnalysis.label ELSE "Unknown", relation)
        useParent == Truthy(parentAnalysis.stanceDirection)
                     /\ parentAnalysis.stanceDirection # "unknown"
        synthesized ==
            synthesizeBinaryStance(
                [direction |-> parentAnalysis.stanceDirection,
                 intensity |-> OrZero(parentAnalysis.stanceIntensity)], relation)
        finalDirection == IF useParent THEN synthesized.direction
                          ELSE analysis.stanceDirection
        finalIntensity == IF useParent THEN synthesized.intensity
                          ELSE OrZero(analysis.stanceIntensity)
        newScore == finalIntensity * DirMultiplier(finalDirection)
    IN [analysis EXCEPT
          !.label = synthesizedLabel,
          !.stanceDirection = finalDirection,
          !.stanceIntensity = finalIntensity,
          !.score = newScore,
          !.axisEvidence =
              IF analysis.axisEvidence # <<>>
              THEN <<"[Thread Match]">> \o analysis.axisEvidence
              ELSE <<"Synthesized from parent", parentAnalysis.label, relation>>,
          !.reason = <<"Thread-aware synthesis", parentAnalysis.stanceDirection,
                       relation, finalDirection>>]

\* A pass that keeps only the analyses whose comment is in the list.
applyStanceSynthesisListed(analyses, comments) ==
    LET listed == SelectSeq(analyses,
                      LAMBDA a : LastIndexWithId(comments, a.commentId) # NotFound)
    IN [k \in 1..Len(listed) |-> SynthesizeOne(listed[k], analyses, comments)]

applyStanceSynthesis(analyses, comments) ==
    [k \in 1..Len(analyses) |-> SynthesizeOne(analyses[k], analyses, comments)]

\* Top-level comments first, then replies, each group in input order.
sortCommentsByThreadOrder(comments) ==
    SelectSeq(comments, LAMBDA c : c.parentId = NoParent)
        \o SelectSeq(comments, LAMBDA c : c.parentId # NoParent)

----------------------------------------------------------------------------
(* Scoring *)

clampScore(score) == Max2(0 - One, Min2(One, score))

\* Math.log10 on the values the model draws (1, 10, 100, ...), where it is an
\* integer.
RECURSIVE Log10(_)
Log10(n) == IF n < 10 THEN 0 ELSE 1 + Log10(n \div 10)

\* AnalysisService.calculateWeightedScore and OpenAIEngine.calculateWeightedScore:
\* weight = 1 + log10(likeCount + 1) * 0.2, no clamp on the zero-likes return.
calculateWeightedScoreDamped(score, likeCount) ==
    IF likeCount = 0 THEN score
    ELSE clampScore((score * (5 + Log10(likeCount + 1))) \div 5)

\* GroqEngine.calculateWeightedScore: weight = 1 + log10(likeCount + 1),
\* normalised by 7, then clamped.
calculateWeightedScoreNormalized(score, likeCount) ==
    clampScore((score * (1 + Log10(likeCount + 1))) \div 7)

\* AnalysisService.scoreToLabel (thresholds 0.3 / -0.3).
scoreToLabel(score) ==
    IF score > Tenth(3) THEN "Support"
    ELSE IF score < 0 - Tenth(3) THEN "Oppose"
    ELSE "Neutral"

\* GroqEngine.labelToScore (0.85 / -0.85 / 0).
labelToScore(label) ==
    IF label = "Support" THEN (One * 85) \div 100
    ELSE IF label = "Oppose" THEN 0 - ((One * 85) \div 100)
    ELSE 0

DirectionLabel(direction) ==
    IF direction = "support" THEN "Support"
    ELSE IF direction = "oppose" THEN "Oppose"
    ELSE IF direction = "neutral" THEN "Neutral"
    ELSE "Unknown"

----------------------------------------------------------------------------
(* Engines: analyzeAxisBatch *)

Engines == {"service", "groq", "openai"}

\* A neutral placeholder analysis (skipped comment, quota fallback).
Placeholder(id, reasonText, evidence) ==
    [commentId |-> id, score |-> 0, weightedScore |-> 0, label |-> "Unknown",
     stanceDirection |-> NoStr, stanceIntensity |-> NoNum, replyRelation |-> NoStr,
     axisEvidence |-> evidence, reason |-> <<reasonText>>, confidence |-> 0]

Returned(analyses, partial) ==
    [kind |-> "return", analyses |-> analyses, isPartial |-> partial, code |-> "none"]

Thrown(code) ==
    [kind |-> "throw", analyses |-> <<>>, isPartial |-> FALSE, code |-> code]

\* The shape of a parsed payload: the bare array of items, an object holding
\* the array under one key, or one object that is neither.
KeyContainers == {"analyses", "comments", "results"}
Containers == {"array"} \cup KeyContainers \cup {"single"}

\* An object none of whose item fields is set.
UndefinedItem ==
    [commentId |-> NoParent, score |-> NoNum, label |-> NoStr,
     stance_direction |-> NoStr, stance_intensity |-> NoNum, relation |-> NoStr,
     axisEvidence |-> <<>>, reason |-> <<NoStr>>, confidence |-> NoNum]

\* `parsed` read as one result item: the single object itself, or the wrapper
\* object, which has none of an item's fields.
ParsedAsItem(reply) ==
    IF reply.container = "single" THEN reply.items[1] ELSE UndefinedItem

NormalizedTo(items) == [thrown |-> FALSE, items |-> items]
InvalidFormat == [thrown |-> TRUE, items |-> <<>>]

\* parsed.analyses || parsed.comments || parsed.results ||
\* (Array.isArray(parsed) ? parsed : [])
ServiceRawResults(reply) ==
    IF reply.container = "analyses" THEN NormalizedTo(reply.items)
    ELSE IF reply.container = "comments" THEN NormalizedTo(reply.items)
    ELSE IF reply.container = "results" THEN NormalizedTo(reply.items)
    ELSE IF reply.container = "array" THEN NormalizedTo(reply.items)
    ELSE NormalizedTo(<<>>)

\* GroqEngine.analyzeAxisBatch: array, comments, analyses, results, else [parsed]
\* (the recovery path normalizes the same way).
GroqRawResults(reply) ==
    IF reply.container = "array" THEN NormalizedTo(reply.items)
    ELSE IF reply.container = "comments" THEN NormalizedTo(reply.items)
    ELSE IF reply.container = "analyses" THEN NormalizedTo(reply.items)
    ELSE IF reply.container = "results" THEN NormalizedTo(reply.items)
    ELSE NormalizedTo(<<ParsedAsItem(reply)>>)

\* OpenAIEngine.analyzeAxisBatch: array, comments, analyses, results, else
\* throw OPENAI_INVALID_FORMAT.
OpenAIRawResults(reply) ==
    IF reply.container = "array" THEN NormalizedTo(reply.items)
    ELSE IF reply.container = "comments" THEN NormalizedTo(reply.items)
    ELSE IF reply.container = "analyses" THEN NormalizedTo(reply.items)
    ELSE IF reply.container = "results" THEN NormalizedTo(reply.items)
    ELSE InvalidFormat

\* GeminiEngine.analyzeBatch: array, comments, analyses, else [parsed].
GeminiRawResults(reply) ==
    IF reply.container = "array" THEN NormalizedTo(reply.items)
    ELSE IF reply.container = "comments" THEN NormalizedTo(reply.items)
    ELSE IF reply.container = "analyses" THEN NormalizedTo(reply.items)
    ELSE NormalizedTo(<<ParsedAsItem(reply)>>)

\* The error AnalysisService rethrows is the provider's or JSON.parse's own.
ProviderErrorCode == "provider_error"

\* AnalysisService.analyzeAxisBatch, the rawResults.map callback.
ServiceAnalysis(r, sortedComments, isLite) ==
    LET ci == LastIndexWithId(sortedComments, r.commentId)
        likeCount == IF ci = NotFound THEN 0 ELSE sortedComments[ci].likeCount
        intensity == OrZero(r.stance_intensity)
        finalScore ==
            IF isLite THEN (IF r.score # NoNum THEN r.score ELSE 0)
            ELSE DirMultiplier(r.stance_direction) * intensity
        label ==
            IF isLite THEN
                IF Truthy(r.label) THEN r.label
                ELSE IF r.score # NoNum /\ r.score # 0 THEN scoreToLabel(finalScore)
                ELSE "Unknown"
            ELSE DirectionLabel(r.stance_direction)
    IN [commentId |-> r.commentId,
        score |-> clampScore(finalScore),
        weightedScore |-> calculateWeightedScoreDamped(finalScore, likeCount),
        label |-> label,
        stanceDirection |-> r.stance_direction,
        stanceIntensity |-> r.stance_intensity,
        replyRelation |-> r.relation,
        axisEvidence |-> r.axisEvidence,
        reason |-> r.reason,
        confidence |-> IF r.confidence = NoNum \/ r.confidence = 0
                       THEN Tenth(8) ELSE r.confidence]

\* AnalysisService.analyzeAxisBatch: every failure of the provider call or of
\* the parse is logged and rethrown; the reply is mapped entry by entry.
ServiceAnalyzeAxisBatch(batch, isLite, reply) ==
    IF reply.kind # "ok" THEN Thrown(ProviderErrorCode)
    ELSE
    LET sortedComments == sortCommentsByThreadOrder(batch)
        rawResults == ServiceRawResults(reply).items
        analyses == [k \in 1..Len(rawResults) |->
                        ServiceAnalysis(rawResults[k], sortedComments, isLite)]
    IN Returned(IF isLite THEN analyses
                ELSE applyStanceSynthesis(analyses, sortedComments), FALSE)

\* OpenAIEngine.analyzeAxisBatch, the rawResults.map callback (score unclamped).
OpenAIAnalysis(r, sortedComments) ==
    LET ci == LastIndexWithId(sortedComments, r.commentId)
        likeCount == IF ci = NotFound THEN 0 ELSE sortedComments[ci].likeCount
        finalScore == IF r.score # NoNum THEN r.score ELSE 0
    IN [commentId |-> r.commentId,
        score |-> finalScore,
        weightedScore |-> calculateWeightedScoreDamped(finalScore, likeCount),
        label |-> r.label,
        stanceDirection |-> r.stance_direction,
        stanceIntensity |-> r.stance_intensity,
        replyRelation |-> r.relation,
        axisEvidence |-> r.axisEvidence,
        reason |-> r.reason,
        confidence |-> r.confidence]

\* OpenAIEngine.analyzeAxisBatch: every error is wrapped in an AnalysisError
\* and thrown.
OpenAIAnalyzeAxisBatch(batch, isLite, reply) ==
    IF reply.kind # "ok" THEN
        Thrown(IF reply.kind = "quota" THEN "OPENAI_QUOTA_EXCEEDED"
               ELSE "OPENAI_AXIS_BATCH_ANALYSIS_ERROR")
    ELSE IF OpenAIRawResults(reply).thrown THEN Thrown("OPENAI_AXIS_BATCH_ANALYSIS_ERROR")
    ELSE
    LET sortedComments == sortCommentsByThreadOrder(batch)
        rawResults == OpenAIRawResults(reply).items
        analyses == [k \in 1..Len(rawResults) |->
                        OpenAIAnalysis(rawResults[k], sortedComments)]
    IN Returned(IF isLite THEN analyses
                ELSE applyStanceSynthesis(analyses, sortedComments), FALSE)

\* GroqEngine.analyzeAxisBatch, the sortedComments.map callback.
GroqAnalysis(comment, items, isLite) ==
    LET ri == FirstIndexWithCommentId(items, comment.id) IN
    IF ri = NotFound
    THEN Placeholder(comment.id, "Groq skipped this comment in axis analysis",
                     <<"No analysis available">>)
    ELSE
    LET r == items[ri]
        finalScore == IF r.score # NoNum THEN r.score ELSE 0
        weightedScore == calculateWeightedScoreNormalized(finalScore, comment.likeCount)
    IN IF isLite THEN
         [commentId |-> r.commentId,
          score |-> clampScore(finalScore),
          weightedScore |-> weightedScore,
          label |-> IF Truthy(r.label) THEN r.label ELSE "Unknown",
          stanceDirection |-> r.stance_direction,
          stanceIntensity |-> r.stance_intensity,
          replyRelation |-> NoStr,
          axisEvidence |-> <<>>,
          reason |-> <<NoStr>>,
          confidence |-> IF r.confidence = NoNum \/ r.confidence = 0
                         THEN Tenth(5) ELSE r.confidence]
       ELSE
         [commentId |-> r.commentId,
          score |-> clampScore(finalScore),
          weightedScore |-> weightedScore,
          label |-> r.label,
          stanceDirection |-> r.stance_direction,
          stanceIntensity |-> r.stance_intensity,
          replyRelation |-> r.relation,
          axisEvidence |-> r.axisEvidence,
          reason |-> r.reason,
          confidence |-> r.confidence]

\* GroqEngine.analyzeAxisBatch, "Recalculate weighted scores after synthesis".
GroqReweigh(analysis, sortedComments) ==
    LET ci == FirstIndexWithCommentId(
                  [k \in 1..Len(sortedComments) |-> [commentId |-> sortedComments[k].id]],
                  analysis.commentId)
    IN IF ci = NotFound THEN analysis
       ELSE [analysis EXCEPT !.weightedScore =
                calculateWeightedScoreNormalized(analysis.score,
                                                 sortedComments[ci].likeCount)]

\* GroqEngine.analyzeAxisBatch, recovery from json_validate_failed.
GroqRecovered(comment, items) ==
    LET ri == FirstIndexWithCommentId(items, comment.id) IN
    IF ri = NotFound
    THEN Placeholder(comment.id, "Skipped in recovery", <<"Skipped">>)
    ELSE
    LET item == items[ri]
        finalScore == IF item.score # NoNum THEN item.score ELSE labelToScore(item.label)
    IN [commentId |-> item.commentId,
        score |-> clampScore(finalScore),
        weightedScore |-> calculateWeightedScoreNormalized(finalScore, comment.likeCount),
        label |-> IF Truthy(item.label) THEN item.label ELSE "Unknown",
        stanceDirection |-> NoStr,
        stanceIntensity |-> NoNum,
        replyRelation |-> NoStr,
        axisEvidence |-> item.axisEvidence,
        reason |-> item.reason,
        confidence |-> IF item.confidence = NoNum \/ item.confidence = 0
                       THEN Tenth(5) ELSE item.confidence]

\* GroqEngine.analyzeAxisBatch: placeholders for a skipped comment, recovery
\* from json_validate_failed, a partial placeholder response on a quota error,
\* and an AnalysisError for every other failure.
GroqAnalyzeAxisBatch(batch, isLite, reply) ==
    LET sortedComments == sortCommentsByThreadOrder(batch) IN
    IF reply.kind = "ok" THEN
        LET pass1 == [k \in 1..Len(sortedComments) |->
                         GroqAnalysis(sortedComments[k], GroqRawResults(reply).items,
                                      isLite)]
            pass2 == applyStanceSynthesis(pass1, sortedComments)
        IN Returned([k \in 1..Len(pass2) |-> GroqReweigh(pass2[k], sortedComments)],
                    FALSE)
    ELSE IF reply.kind = "validate_failed" THEN
        LET rec == [k \in 1..Len(sortedComments) |->
                       GroqRecovered(sortedComments[k], GroqRawResults(reply).items)]
        IN Returned(applyStanceSynthesis(rec, sortedComments), FALSE)
    ELSE IF reply.kind = "quota" THEN
        Returned([k \in 1..Len(batch) |->
                     Placeholder(batch[k].id, "Analysis skipped due to Groq API limits.",
                                 <<"API quota exceeded">>)], TRUE)
    ELSE Thrown("GROQ_AXIS_BATCH_ERROR")

analyzeAxisBatch(eng, batch, isLite, reply) ==
    IF eng = "service" THEN ServiceAnalyzeAxisBatch(batch, isLite, reply)
    ELSE IF eng = "groq" THEN GroqAnalyzeAxisBatch(batch, isLite, reply)
    ELSE OpenAIAnalyzeAxisBatch(batch, isLite, reply)

----------------------------------------------------------------------------
(* Inputs of a run *)

MaxComments == 4

UnknownId == MaxComments + 1
OrphanParent == MaxComments + 2

MAX_CONCURRENT_BATCHES == 3

BatchSizes == {1, 2}
RichTierThresholds == {1, 2}

Graphs == {"flat", "star", "chain", "orphan"}

ParentOf(graph, id) ==
    IF graph = "star" THEN (IF id = 1 THEN NoParent ELSE 1)
    ELSE IF graph = "chain" THEN (IF id = 1 THEN NoParent ELSE id - 1)
    ELSE IF graph = "orphan" THEN (IF id = 1 THEN OrphanParent ELSE NoParent)
    ELSE NoParent

LikesOf(id) == IF id % 3 = 1 THEN 9 ELSE IF id % 3 = 2 THEN 0 ELSE 99

\* The comment list as the YouTube client returns it (not yet sorted).
FetchedComments(n, graph) ==
    [id \in 1..n |-> [id |-> id, likeCount |-> LikesOf(id),
                      parentId |-> ParentOf(graph, id)]]

\* What the language model answers for one comment.
Profiles == {"consistent", "wild", "labelscore", "mixed"}

ItemFor(prof, c) ==
    IF prof = "consistent" THEN
        LET d == IF c.id % 3 = 1 THEN "support"
                 ELSE IF c.id % 3 = 2 THEN "oppose" ELSE "neutral"
            i == IF d = "neutral" THEN 0 ELSE Tenth(8)
        IN [commentId |-> c.id, score |-> i * DirMultiplier(d),
            label |-> DirectionLabel(d), stance_direction |-> d,
            stance_intensity |-> i,
            relation |-> IF c.parentId = NoParent THEN NoStr
                         ELSE IF c.id % 2 = 0 THEN "disagree" ELSE "agree",
            axisEvidence |-> <<"quote">>, reason |-> <<"llm">>,
            confidence |-> Tenth(9)]
    ELSE IF prof = "mixed" THEN
        [commentId |-> c.id, score |-> Tenth(3), label |-> "Support",
         stance_direction |-> "oppose", stance_intensity |-> Tenth(8),
         relation |-> IF c.parentId = NoParent THEN NoStr ELSE "clarify",
         axisEvidence |-> <<"quote">>, reason |-> <<"llm">>, confidence |-> Tenth(9)]
    ELSE IF prof = "wild" THEN
        [commentId |-> c.id, score |-> Tenth(15), label |-> "Support",
         stance_direction |-> "support", stance_intensity |-> Tenth(15),
         relation |-> IF c.parentId = NoParent THEN NoStr ELSE "agree",
         axisEvidence |-> <<>>, reason |-> <<"llm">>, confidence |-> NoNum]
    ELSE
        [commentId |-> c.id,
         score |-> IF c.id % 2 = 0 THEN 0 - Tenth(7) ELSE Tenth(7),
         label |-> IF c.id % 2 = 0 THEN "Oppose" ELSE NoStr,
         stance_direction |-> NoStr, stance_intensity |-> NoNum,
         relation |-> NoStr, axisEvidence |-> <<>>, reason |-> <<"llm">>,
         confidence |-> NoNum]

Reverse(s) == [k \in 1..Len(s) |-> s[Len(s) + 1 - k]]

\* What the provider call can produce for a prompt listing `prompted`.
ProviderReplies(prompted, prof) ==
    LET full == [k \in 1..Len(prompted) |-> ItemFor(prof, prompted[k])]
        stray == [ItemFor(prof, prompted[1]) EXCEPT !.commentId = UnknownId]
        lists == {full, Reverse(full), SubSeq(full, 1, Len(full) - 1), <<stray>> \o full}
    IN { [kind |-> "ok", container |-> c, items |-> x] :
            c \in Containers \ {"single"}, x \in lists }
       \cup
       { [kind |-> "ok", container |-> "single", items |-> <<full[1]>>],
         [kind |-> "validate_failed", container |-> "comments", items |-> full],
         [kind |-> "quota", container |-> "array", items |-> <<>>],
         [kind |-> "network", container |-> "array", items |-> <<>>],
         [kind |-> "unparsable", container |-> "array", items |-> <<>>] }

----------------------------------------------------------------------------
(* The /api/analyze route *)

VARIABLES
    engine,            \* the engine createAnalysisEngine returned
    profile,           \* how the language model answers in this run
    comments,          \* `comments`: fetched, then sorted by likeCount
    batchSize,         \* engine.getConfig().batchSize
    richTierThreshold, \* RICH_TIER_THRESHOLD
    batches,           \* `batches`
    i,                 \* index of the first batch of the current window
    pc,                \* position of POST
    inflight,          \* batch indices whose engine call has not settled
    results,           \* per batch: what its async callback resolved to
    analyzedComments,  \* `analyzedComments`
    isPartialResult,   \* `isPartialResult`
    response           \* the JSON body of the response

runVars == <<engine, profile, comments, batchSize, richTierThreshold, batches,
             i, pc, inflight, results, analyzedComments, isPartialResult, response>>

\* Array.prototype.sort((a, b) => b.likeCount - a.likeCount): stable, descending.
InsertByLikes(c, s) ==
    LET pos == Cardinality({k \in 1..Len(s) : s[k].likeCount >= c.likeCount})
    IN SubSeq(s, 1, pos) \o <<c>> \o SubSeq(s, pos + 1, Len(s))

RECURSIVE SortByLikes(_)
SortByLikes(s) ==
    IF s = <<>> THEN <<>>
    ELSE InsertByLikes(s[Len(s)], SortByLikes(SubSeq(s, 1, Len(s) - 1)))

\* for (i = 0; i < comments.length; i += batchSize) batches.push(slice(i, i + batchSize))
MakeBatches(cs, size) ==
    [b \in 1..((Len(cs) + size - 1) \div size) |->
        SubSeq(cs, (b - 1) * size + 1, Min2(b * size, Len(cs)))]

\* globalIndex >= richTierThreshold, for the batch with 1-based index b.
IsLiteBatch(b, size, threshold) == (b - 1) * size >= threshold

NoResult == [kind |-> "none", analyses |-> <<>>, isPartial |-> FALSE, code |-> "none"]

\* `tier` is the callback's local of that name: "Rich" or "Lite" once it has run.
Pending == [settled |-> FALSE, success |-> FALSE, escaped |-> FALSE, result |-> NoResult,
            tier |-> "none"]

\* The async callback of currentBatchGroup.map with an error that escapes
\* instead of being caught.
SettleBatchRethrow(call) ==
    IF call.kind = "throw"
    THEN [Pending EXCEPT !.settled = TRUE, !.escaped = TRUE]
    ELSE [Pending EXCEPT !.settled = TRUE, !.success = TRUE, !.result = call]

\* The async callback of currentBatchGroup.map: try { ... return { result,
\* batch, success: true } } catch { return { result: null, batch, success: false } }
SettleBatch(call) ==
    IF call.kind = "throw"
    THEN [Pending EXCEPT !.settled = TRUE]
    ELSE [Pending EXCEPT !.settled = TRUE, !.success = TRUE, !.result = call]

\* analyzedComments.push({...comment, sentiment: analysis.score, ...})
AnalyzedComment(comment, analysis) ==
    [id |-> comment.id, likeCount |-> comment.likeCount, parentId |-> comment.parentId,
     sentiment |-> analysis.score, weightedScore |-> analysis.weightedScore,
     label |-> analysis.label, confidence |-> analysis.confidence,
     axisEvidence |-> analysis.axisEvidence, replyRelation |-> analysis.replyRelation]

\* for (j = 0; j < batch.length; j++): batch[j] is paired with
\* result.analyses[j]; a missing analyses[j] is skipped.
PushedFor(batch, analyses) ==
    [j \in 1..Min2(Len(batch), Len(analyses)) |-> AnalyzedComment(batch[j], analyses[j])]

\* What the "Process results" loop appends for one entry of `results`.
Contribution(batch, settled) ==
    IF ~settled.success \/ settled.result.kind # "return" THEN <<>>
    ELSE PushedFor(batch, settled.result.analyses)

RECURSIVE Contributions(_, _, _, _)
Contributions(bs, rs, from, to) ==
    IF from > to THEN <<>>
    ELSE Contribution(bs[from], rs[from]) \o Contributions(bs, rs, from + 1, to)

\* A window that takes every remaining batch at once.
WindowOfRest(first, nbatches) ==
    (first + 1)..nbatches

WindowOf(first, nbatches) ==
    (first + 1)..Min2(first + MAX_CONCURRENT_BATCHES, nbatches)

NaN == 0 - (2000 * One)

\* Math.round(weight * scaleFactor) with scaleFactor = length / totalWeight;
\* every weight is 1.0 (isRepeatUser is always false), so scaleFactor is 1, or
\* NaN (0 / 0) when no comment was analyzed.
Distribution(acs) ==
    LET pos == Cardinality({k \in 1..Len(acs) : acs[k].sentiment > Tenth(2)})
        neg == Cardinality({k \in 1..Len(acs) :
                             acs[k].sentiment <= Tenth(2) /\ acs[k].sentiment < 0 - Tenth(2)})
        neu == Len(acs) - pos - neg
    IN IF Len(acs) = 0
       THEN [support |-> NaN, neutral |-> NaN, oppose |-> NaN, total |-> 0]
       ELSE [support |-> pos, neutral |-> neu, oppose |-> neg, total |-> Len(acs)]

NoResponse == [status |-> 0, comments |-> <<>>, isPartial |-> FALSE,
               distribution |-> [support |-> 0, neutral |-> 0, oppose |-> 0, total |-> 0]]

RunIdle ==
    /\ engine = "service" /\ profile = "consistent" /\ comments = <<>>
    /\ batchSize = 1 /\ richTierThreshold = 1 /\ batches = <<>> /\ i = 0
    /\ pc = "idle" /\ inflight = {} /\ results = <<>>
    /\ analyzedComments = <<>> /\ isPartialResult = FALSE /\ response = NoResponse

RunInit ==
    /\ engine \in Engines
    /\ profile \in Profiles
    /\ \E n \in 0..MaxComments, g \in Graphs : comments = FetchedComments(n, g)
    /\ batchSize \in BatchSizes
    /\ richTierThreshold \in RichTierThresholds
    /\ batches = <<>> /\ i = 0 /\ pc = "fetched" /\ inflight = {} /\ results = <<>>
    /\ analyzedComments = <<>> /\ isPartialResult = FALSE /\ response = NoResponse

\* comments.length === 0: 404.
NoComments ==
    /\ pc = "fetched" /\ comments = <<>>
    /\ pc' = "done"
    /\ response' = [NoResponse EXCEPT !.status = 404]
    /\ UNCHANGED <<engine, profile, comments, batchSize, richTierThreshold, batches,
                   i, inflight, results, analyzedComments, isPartialResult>>

\* Sort by likeCount, slice into batches.
Prepare ==
    /\ pc = "fetched" /\ comments # <<>>
    /\ comments' = SortByLikes(comments)
    /\ batches' = MakeBatches(comments', batchSize)
    /\ results' = [b \in 1..Len(batches') |-> Pending]
    /\ i' = 0
    /\ pc' = "window"
    /\ UNCHANGED <<engine, profile, batchSize, richTierThreshold, inflight,
                   analyzedComments, isPartialResult, response>>

\* currentBatchGroup.map(async ...) starts every call of the window.
StartWindow ==
    /\ pc = "window"
    /\ inflight' = WindowOf(i, Len(batches))
    /\ pc' = "await"
    /\ UNCHANGED <<engine, profile, comments, batchSize, richTierThreshold, batches,
                   i, results, analyzedComments, isPartialResult, response>>

\* One engine call of the window settles, with any provider outcome.
BatchSettles(b) ==
    /\ pc = "await" /\ b \in inflight
    /\ \E reply \in ProviderReplies(sortCommentsByThreadOrder(batches[b]), profile) :
          LET isLiteBatch == IsLiteBatch(b, batchSize, richTierThreshold) IN
          results' = [results EXCEPT ![b] =
              [SettleBatch(analyzeAxisBatch(engine, batches[b], isLiteBatch, reply))
                  EXCEPT !.tier = IF isLiteBatch THEN "Lite" ELSE "Rich"]]
    /\ inflight' = inflight \ {b}
    /\ UNCHANGED <<engine, profile, comments, batchSize, richTierThreshold, batches,
                   i, pc, analyzedComments, isPartialResult, response>>

\* Promise.all resolved (or rejected): the "Process results" loop, then the
\* inter-window delay or the end of the loop.
ProcessWindow ==
    /\ pc = "await" /\ inflight = {}
    /\ LET w == WindowOf(i, Len(batches)) IN
       IF \E b \in w : results[b].escaped
       THEN /\ pc' = "done"
            /\ response' = [NoResponse EXCEPT !.status = 500]
            /\ UNCHANGED <<analyzedComments, isPartialResult, i>>
       ELSE /\ analyzedComments' = analyzedComments \o
                    Contributions(batches, results, i + 1,
                                  Min2(i + MAX_CONCURRENT_BATCHES, Len(batches)))
            /\ isPartialResult' =
                   (isPartialResult \/ \E b \in w :
                        results[b].success /\ results[b].result.isPartial)
            /\ IF i + MAX_CONCURRENT_BATCHES < Len(batches)
               THEN pc' = "delay" /\ i' = i
               ELSE pc' = "aggregate" /\ i' = i + MAX_CONCURRENT_BATCHES
            /\ UNCHANGED response
    /\ UNCHANGED <<engine, profile, comments, batchSize, richTierThreshold, batches,
                   inflight, results>>

\* setTimeout(resolve, 100) fired; i += MAX_CONCURRENT_BATCHES.
DelayElapsed ==
    /\ pc = "delay"
    /\ i' = i + MAX_CONCURRENT_BATCHES
    /\ pc' = "window"
    /\ UNCHANGED <<engine, profile, comments, batchSize, richTierThreshold, batches,
                   inflight, results, analyzedComments, isPartialResult, response>>

\* distribution, response.
Respond ==
    /\ pc = "aggregate"
    /\ response' = [status |-> 200, comments |-> analyzedComments,
                    isPartial |-> isPartialResult,
                    distribution |-> Distribution(analyzedComments)]
    /\ pc' = "done"
    /\ UNCHANGED <<engine, profile, comments, batchSize, richTierThreshold, batches,
                   i, inflight, results, analyzedComments, isPartialResult>>

----------------------------------------------------------------------------
(* One engine call on its own: analyzeAxisBatch(request, axisProfile) *)

VARIABLES
    callEngine,   \* the engine called
    callBatch,    \* request.comments
    callIsLite,   \* request.isLite
    callReply,    \* what the provider call produced
    callResult,   \* what analyzeAxisBatch returned or threw
    callPc        \* "idle", "ready", "called"

callVars == <<callEngine, callBatch, callIsLite, callReply, callResult, callPc>>

NoReply == [kind |-> "none", container |-> "array", items |-> <<>>]

CallIdle ==
    /\ callEngine = "service" /\ callBatch = <<>> /\ callIsLite = FALSE
    /\ callReply = NoReply /\ callResult = NoResult /\ callPc = "idle"

\* A request as the route builds it: a slice of the likeCount-sorted list.
CallInit ==
    /\ callEngine \in Engines
    /\ \E n \in 1..MaxComments, g \in Graphs :
          callBatch = SortByLikes(FetchedComments(n, g))
    /\ callIsLite \in BOOLEAN
    /\ callReply = NoReply /\ callResult = NoResult /\ callPc = "ready"

CallAnalyzeAxisBatch ==
    /\ callPc = "ready"
    /\ \E prof \in Profiles :
         \E reply \in ProviderReplies(sortCommentsByThreadOrder(callBatch), prof) :
            /\ callReply' = reply
            /\ callResult' = analyzeAxisBatch(callEngine, callBatch, callIsLite, reply)
    /\ callPc' = "called"
    /\ UNCHANGED <<callEngine, callBatch, callIsLite>>

----------------------------------------------------------------------------
(* stance-logic on its own *)

VARIABLES
    synPc,        \* "idle", "synth_in", "synth_once", "synth_twice",
                  \* "binary_in", "binary_out"
    synAnalyses,  \* applyStanceSynthesis: `analyses`
    synComments,  \* applyStanceSynthesis: `comments`
    synOnce,      \* applyStanceSynthesis(analyses, comments)
    synTwice,     \* applyStanceSynthesis(synOnce, comments)
    binParent,    \* synthesizeBinaryStance: `parent`
    binRelation,  \* synthesizeBinaryStance: `replyRelation`
    binOut        \* its return value

synVars == <<synPc, synAnalyses, synComments, synOnce, synTwice,
             binParent, binRelation, binOut>>

MaxThread == 3

NoStance == [direction |-> NoStr, intensity |-> NoNum]

\* Relations the system prompt offers beyond the ReplyRelation type.
OtherRelations == {"partial_agree", "unclear"}

ThreadGraphs == {"flat", "star", "chain", "unresolved", "unlisted"}

ThreadParent(graph, id) ==
    IF graph \in {"star", "unlisted"} THEN (IF id = 1 THEN NoParent ELSE 1)
    ELSE IF graph = "chain" THEN (IF id = 1 THEN NoParent ELSE id - 1)
    ELSE IF graph = "unresolved" THEN (IF id = 1 THEN NoParent ELSE OrphanParent)
    ELSE NoParent

\* The comment list handed to the synthesizer; "unlisted" leaves comment 2 out.
ThreadComments(n, graph) ==
    LET all == [id \in 1..n |-> [id |-> id, likeCount |-> 0,
                                 parentId |-> ThreadParent(graph, id)]]
    IN IF graph = "unlisted" THEN SelectSeq(all, LAMBDA c : c.id # 2) ELSE all

PassOne(id, dir, intensity, label, relation, evidence) ==
    [commentId |-> id,
     score |-> clampScore(OrZero(intensity) * DirMultiplier(dir)),
     weightedScore |-> clampScore(OrZero(intensity) * DirMultiplier(dir)),
     label |-> label, stanceDirection |-> dir, stanceIntensity |-> intensity,
     replyRelation |-> relation, axisEvidence |-> evidence,
     reason |-> <<"llm">>, confidence |-> Tenth(9)]

\* Pass-1 analyses of the thread root, of its first reply and of later replies.
RootAnalyses ==
    { PassOne(1, d, n, l, NoStr, <<"quote">>) :
        d \in Directions \cup {NoStr}, n \in {Tenth(8), NoNum},
        l \in {"Support", "Oppose", "Unknown"} }

ReplyAnalyses ==
    { PassOne(2, d[1], d[2], DirectionLabel(d[1]), r, e) :
        d \in {<<"oppose", Tenth(5)>>, <<NoStr, NoNum>>},
        r \in ReplyRelations \cup {"partial_agree", NoStr},
        e \in {<<>>, <<"quote">>} }

LaterAnalyses(id) ==
    { PassOne(id, "support", Tenth(4), "Support", r, <<>>) : r \in {"agree", "disagree"} }

RECURSIVE AnalysisLists(_)
AnalysisLists(n) ==
    IF n = 1 THEN { <<a>> : a \in RootAnalyses }
    ELSE IF n = 2 THEN { <<a, b>> : a \in RootAnalyses, b \in ReplyAnalyses }
    ELSE { s \o <<c>> : s \in AnalysisLists(n - 1), c \in LaterAnalyses(n) }

SynIdle ==
    /\ synPc = "idle" /\ synAnalyses = <<>> /\ synComments = <<>>
    /\ synOnce = <<>> /\ synTwice = <<>>
    /\ binParent = NoStance /\ binRelation = NoStr /\ binOut = NoStance

SynInit ==
    \/ /\ synPc = "synth_in"
       /\ \E n \in 2..MaxThread :
            /\ \E g \in ThreadGraphs : synComments = ThreadComments(n, g)
            /\ \E s \in AnalysisLists(n) : synAnalyses \in {s, Reverse(s)}
       /\ synOnce = <<>> /\ synTwice = <<>>
       /\ binParent = NoStance /\ binRelation = NoStr /\ binOut = NoStance
    \/ /\ synPc = "binary_in"
       /\ binParent \in [direction : Directions,
                         intensity : {0, Tenth(6), Tenth(8), One}]
       /\ binRelation \in ReplyRelations \cup OtherRelations
       /\ binOut = NoStance
       /\ synAnalyses = <<>> /\ synComments = <<>> /\ synOnce = <<>> /\ synTwice = <<>>

ApplySynthesis ==
    /\ synPc = "synth_in"
    /\ synOnce' = applyStanceSynthesis(synAnalyses, synComments)
    /\ synPc' = "synth_once"
    /\ UNCHANGED <<synAnalyses, synComments, synTwice, binParent, binRelation, binOut>>

ReapplySynthesis ==
    /\ synPc = "synth_once"
    /\ synTwice' = applyStanceSynthesis(synOnce, synComments)
    /\ synPc' = "synth_twice"
    /\ UNCHANGED <<synAnalyses, synComments, synOnce, binParent, binRelation, binOut>>

CallSynthesizeBinaryStance ==
    /\ synPc = "binary_in"
    /\ binOut' = synthesizeBinaryStance(binParent, binRelation)
    /\ synPc' = "binary_out"
    /\ UNCHANGED <<synAnalyses, synComments, synOnce, synTwice, binParent, binRelation>>

----------------------------------------------------------------------------
(* Container normalization on its own *)

VARIABLES
    normEngine,   \* the engine whose normalization runs
    normPayload,  \* `parsed`
    normOut,      \* `rawResults` / `parsedArray`, or the thrown format error
    normPc        \* "idle", "parsed", "normalized"

normVars == <<normEngine, normPayload, normOut, normPc>>

NormEngines == Engines \cup {"gemini"}

RawResults(eng, reply) ==
    IF eng = "service" THEN ServiceRawResults(reply)
    ELSE IF eng = "groq" THEN GroqRawResults(reply)
    ELSE IF eng = "openai" THEN OpenAIRawResults(reply)
    ELSE GeminiRawResults(reply)

NormIdle ==
    /\ normEngine = "service" /\ normPayload = NoReply
    /\ normOut = NormalizedTo(<<>>) /\ normPc = "idle"

\* Any payload a provider reply parses to.
NormInit ==
    /\ normEngine \in NormEngines
    /\ \E n \in 1..MaxComments, g \in Graphs, prof \in Profiles :
          /\ normPayload \in ProviderReplies(SortByLikes(FetchedComments(n, g)), prof)
          /\ normPayload.kind = "ok"
    /\ normOut = NormalizedTo(<<>>) /\ normPc = "parsed"

Normalize ==
    /\ normPc = "parsed"
    /\ normOut' = RawResults(normEngine, normPayload)
    /\ normPc' = "normalized"
    /\ UNCHANGED <<normEngine, normPayload>>

----------------------------------------------------------------------------
(* Helpers, the Gemini call and splitText on their own: state *)

VARIABLES
    repPc,        \* "idle", "cut", "repaired"
    repIn,        \* repairTruncatedJSON: `json`, a sequence of characters
    repOut,       \* its return value
    sortPc,       \* "idle", "unsorted", "sorted"
    sortIn,       \* sortCommentsByThreadOrder: `comments`
    sortOut,      \* its return value
    gemPc,        \* "idle", "attempt", "backoff", "returned", "thrown"
    gemBatch,     \* GeminiEngine.analyzeBatch: request.comments
    attempts,     \* `attempts`
    calls,        \* number of generateContent calls made
    gemLast,      \* outcome of the latest generateContent call
    gemResult,    \* the returned BatchAnalysisResponse
    splitPc,      \* "idle", "loop", "done"
    text,         \* splitText: `text`
    chunkSize,    \* `chunkSize`
    overlap,      \* `overlap`
    start,        \* `start`
    chunks        \* `chunks`

repVars == <<repPc, repIn, repOut>>
sortVars == <<sortPc, sortIn, sortOut>>
gemVars == <<gemPc, gemBatch, attempts, calls, gemLast, gemResult>>
splitVars == <<splitPc, text, chunkSize, overlap, start, chunks>>

auxVars == <<repVars, sortVars, gemVars, splitVars>>

vars == <<runVars, callVars, synVars, normVars, auxVars>>

RepIdle == repPc = "idle" /\ repIn = <<>> /\ repOut = <<>>

SortIdle == sortPc = "idle" /\ sortIn = <<>> /\ sortOut = <<>>

GemIdle ==
    /\ gemPc = "idle" /\ gemBatch = <<>> /\ attempts = 0 /\ calls = 0
    /\ gemLast = NoReply /\ gemResult = NoResult

SplitIdle ==
    /\ splitPc = "idle" /\ text = <<>> /\ chunkSize = 1 /\ overlap = 0
    /\ start = 0 /\ chunks = <<>>

----------------------------------------------------------------------------
(* OpenAIEngine.repairTruncatedJSON over texts as sequences of characters *)

Quote == "\""
Backslash == "\\"
Whitespace == {" "}

\* s[k], or the empty string past either end.
At(s, k) == IF k \in 1..Len(s) THEN s[k] ELSE ""

\* The first index from `from` on that holds no whitespace (Len(s) + 1 if none).
SkipWs(s, from) ==
    LET rest == {k \in from..Len(s) : s[k] \notin Whitespace}
    IN IF rest = {} THEN Len(s) + 1 ELSE CHOOSE k \in rest : \A m \in rest : k <= m

\* The first index after `from` that holds a quote (0 if none).
NextQuote(s, from) ==
    LET qs == {k \in (from + 1)..Len(s) : s[k] = Quote}
    IN IF qs = {} THEN 0 ELSE CHOOSE k \in qs : \A m \in qs : k <= m

\* String.prototype.trim
Trim(s) ==
    LET kept == {k \in 1..Len(s) : s[k] \notin Whitespace}
    IN IF kept = {} THEN <<>>
       ELSE SubSeq(s, CHOOSE k \in kept : \A m \in kept : k <= m,
                      CHOOSE k \in kept : \A m \in kept : k >= m)

\* s.replace(re, ""), for a pattern anchored at the end: the text before the
\* leftmost index at which the pattern matches.
CutAtLeftmost(s, matches) ==
    IF matches = {} THEN s
    ELSE SubSeq(s, 1, (CHOOSE k \in matches : \A m \in matches : k <= m) - 1)

\* /,\s*$/
TrailingCommaAt(s) ==
    {p \in 1..Len(s) : s[p] = "," /\ SkipWs(s, p + 1) = Len(s) + 1}

\* /,\s*"[^"]*"\s*:\s*[^,\]\}]*$/
DanglingPairAt(s) ==
    {p \in 1..Len(s) :
        /\ s[p] = ","
        /\ At(s, SkipWs(s, p + 1)) = Quote
        /\ NextQuote(s, SkipWs(s, p + 1)) # 0
        /\ LET colon == SkipWs(s, NextQuote(s, SkipWs(s, p + 1)) + 1)
           IN /\ At(s, colon) = ":"
              /\ \A k \in (colon + 1)..Len(s) : s[k] \notin {",", "]", "}"}}

\* /,\s*"[^"]*"\s*$/
DanglingKeyAt(s) ==
    {p \in 1..Len(s) :
        /\ s[p] = ","
        /\ At(s, SkipWs(s, p + 1)) = Quote
        /\ NextQuote(s, SkipWs(s, p + 1)) # 0
        /\ SkipWs(s, NextQuote(s, SkipWs(s, p + 1)) + 1) = Len(s) + 1}

\* The for loop over the characters: the bracket stack and the string state.
RECURSIVE ScanBrackets(_, _, _, _, _)
ScanBrackets(s, k, stack, inString, escaped) ==
    IF k > Len(s) THEN [stack |-> stack, inString |-> inString]
    ELSE IF escaped THEN ScanBrackets(s, k + 1, stack, inString, FALSE)
    ELSE IF s[k] = Backslash THEN ScanBrackets(s, k + 1, stack, inString, TRUE)
    ELSE IF s[k] = Quote THEN ScanBrackets(s, k + 1, stack, ~inString, FALSE)
    ELSE IF inString THEN ScanBrackets(s, k + 1, stack, inString, FALSE)
    ELSE IF s[k] \in {"{", "["}
         THEN ScanBrackets(s, k + 1, Append(stack, s[k]), inString, FALSE)
    ELSE IF s[k] = "}" /\ stack # <<>> /\ stack[Len(stack)] = "{"
         THEN ScanBrackets(s, k + 1, SubSeq(stack, 1, Len(stack) - 1), inString, FALSE)
    ELSE IF s[k] = "]" /\ stack # <<>> /\ stack[Len(stack)] = "["
         THEN ScanBrackets(s, k + 1, SubSeq(stack, 1, Len(stack) - 1), inString, FALSE)
    ELSE ScanBrackets(s, k + 1, stack, inString, FALSE)

\* while (stack.length > 0) { last = stack.pop(); append its closer }
Closers(stack) ==
    [k \in 1..Len(stack) |->
        IF stack[Len(stack) + 1 - k] = "{" THEN "}" ELSE "]"]

repairTruncatedJSON(json) ==
    LET trimmed == CutAtLeftmost(Trim(json), TrailingCommaAt(Trim(json)))
        scan == ScanBrackets(trimmed, 1, <<>>, FALSE, FALSE)
        closed == IF scan.inString THEN Append(trimmed, Quote) ELSE trimmed
        noPair == CutAtLeftmost(closed, DanglingPairAt(closed))
        noKey == CutAtLeftmost(noPair, DanglingKeyAt(noPair))
    IN noKey \o Closers(scan.stack)

\* Complete documents the provider may have been writing when it was cut off.
Documents ==
    { <<"[", "{", Quote, "a", Quote, ":", "1", "}", ",",
        "{", Quote, "b", Quote, ":", "2", ",", Quote, "c", Quote, ":", "3", "}", "]">>,
      <<"{", Quote, "a", Quote, ":", "[", "1", ",", " ", "2", "]", ",",
        Quote, "b", Quote, ":", Quote, "x", "]", "}", "y", Quote, "}">>,
      <<"{", Quote, "a", Quote, ":", Quote, "q", Backslash, Quote, "[", Quote, ",",
        " ", Quote, "b", Quote, ":", "{", Quote, "c", Quote, ":", "1", "}", "}">>,
      <<"[", "1", ",", " ", "[", "2", ",", "3", "]", " ", ",", "4", "]">>,
      <<"{", Quote, "a", Quote, ":", "1", ",", Quote, "k", Quote, ":", " ",
        "[", "1", ",", "2", "]", "}">> }

\* A document cut off after at least one and before its last character.
RepairInit ==
    /\ repPc = "cut"
    /\ \E doc \in Documents : \E n \in 1..(Len(doc) - 1) : repIn = SubSeq(doc, 1, n)
    /\ repOut = <<>>

CallRepairTruncatedJSON ==
    /\ repPc = "cut"
    /\ repOut' = repairTruncatedJSON(repIn)
    /\ repPc' = "repaired"
    /\ UNCHANGED repIn

----------------------------------------------------------------------------
(* sortCommentsByThreadOrder on its own *)

Orders(n) ==
    {p \in [1..n -> 1..n] : \A a, b \in 1..n : p[a] = p[b] => a = b}

\* The comments of a request in any order.
SortInit ==
    /\ sortPc = "unsorted"
    /\ \E n \in 1..MaxComments, g \in Graphs :
          \E p \in Orders(n) :
             sortIn = [k \in 1..n |-> FetchedComments(n, g)[p[k]]]
    /\ sortOut = <<>>

CallSortCommentsByThreadOrder ==
    /\ sortPc = "unsorted"
    /\ sortOut' = sortCommentsByThreadOrder(sortIn)
    /\ sortPc' = "sorted"
    /\ UNCHANGED sortIn

----------------------------------------------------------------------------
(* GeminiEngine.analyzeBatch *)

maxRetries == 3

GeminiPlaceholder(id, reasonText) ==
    [commentId |-> id, score |-> 0, weightedScore |-> 0, reason |-> <<reasonText>>]

\* The request.comments.map callback of the successful attempt.
GeminiAnalysis(comment, parsedArray) ==
    LET ri == FirstIndexWithCommentId(parsedArray, comment.id) IN
    IF ri = NotFound
    THEN GeminiPlaceholder(comment.id, "Gemini skipped this comment in batch analysis")
    ELSE [commentId |-> parsedArray[ri].commentId,
          score |-> IF parsedArray[ri].score = NoNum THEN NaN
                    ELSE clampScore(parsedArray[ri].score),
          weightedScore |-> IF parsedArray[ri].score = NoNum THEN NaN
                            ELSE calculateWeightedScoreNormalized(parsedArray[ri].score,
                                                                  comment.likeCount),
          reason |-> IF parsedArray[ri].reason = <<NoStr>>
                     THEN <<"No reason provided">> ELSE parsedArray[ri].reason]

\* The fallback of the catch block: one neutral analysis per requested comment.
GeminiFallback(batch, isQuotaError) ==
    Returned([k \in 1..Len(batch) |->
                 GeminiPlaceholder(batch[k].id,
                     IF isQuotaError THEN "Analysis skipped due to API quota limits."
                     ELSE "Analysis failed after attempts")], TRUE)

\* A give-up test that looks at the number of attempts only.
GeminiGivesUpWhenExhausted(reply, attemptsNow) ==
    attemptsNow >= maxRetries

\* if (isQuotaError || attempts >= maxRetries)
GeminiGivesUp(reply, attemptsNow) ==
    reply.kind = "quota" \/ attemptsNow >= maxRetries

GeminiInit ==
    /\ gemPc = "attempt"
    /\ \E n \in 0..MaxComments, g \in Graphs :
          gemBatch = SortByLikes(FetchedComments(n, g))
    /\ attempts = 0 /\ calls = 0 /\ gemLast = NoReply /\ gemResult = NoResult

\* if (request.comments.length === 0) return { analyses: [] ... }
GeminiEmptyRequest ==
    /\ gemPc = "attempt" /\ gemBatch = <<>>
    /\ gemResult' = Returned(<<>>, FALSE)
    /\ gemPc' = "returned"
    /\ UNCHANGED <<gemBatch, attempts, calls, gemLast>>

\* The test of the while loop and one pass through its body: the provider
\* call, then the mapping of a parsed reply, or the catch block.  Past the
\* loop stands the trailing throw.
GeminiAttempt ==
    /\ gemPc = "attempt" /\ gemBatch # <<>>
    /\ IF attempts < maxRetries
       THEN \E prof \in Profiles : \E reply \in ProviderReplies(gemBatch, prof) :
              /\ calls' = calls + 1
              /\ gemLast' = reply
              /\ IF reply.kind = "ok"
                 THEN /\ gemResult' =
                           Returned([k \in 1..Len(gemBatch) |->
                                        GeminiAnalysis(gemBatch[k],
                                                       GeminiRawResults(reply).items)],
                                    FALSE)
                      /\ gemPc' = "returned"
                      /\ UNCHANGED attempts
                 ELSE /\ attempts' = attempts + 1
                      /\ IF GeminiGivesUp(reply, attempts')
                         THEN /\ gemResult' = GeminiFallback(gemBatch, reply.kind = "quota")
                              /\ gemPc' = "returned"
                         ELSE /\ gemPc' = "backoff"
                              /\ UNCHANGED gemResult
       ELSE /\ gemPc' = "thrown"
            /\ gemResult' = Thrown("GEMINI_BATCH_ERROR")
            /\ UNCHANGED <<attempts, calls, gemLast>>
    /\ UNCHANGED gemBatch

\* setTimeout(resolve, 2^attempts * 1000) fired; continue.
GeminiBackoffElapsed ==
    /\ gemPc = "backoff"
    /\ gemPc' = "attempt"
    /\ UNCHANGED <<gemBatch, attempts, calls, gemLast, gemResult>>

----------------------------------------------------------------------------
(* splitText(text, chunkSize, overlap) over texts as sequences of characters *)

MaxText == 3
MaxChunkSize == 3
MaxOverlap == 3

Alphabet == {"a", "b"}

Texts == UNION {[1..n -> Alphabet] : n \in 0..MaxText}

\* chunks records the first MaxChunks chunks pushed; a call that returns
\* pushes at most one chunk per character.
MaxChunks == MaxText + 2

\* Below this value of start every iteration does the same: start is less
\* than text.length, both ends of the slice are clamped to 0, and the chunk
\* is empty.  start is kept at this value once it gets there.
StartFloor == 0 - (MaxText + MaxChunkSize)

\* String.prototype.slice(from, to): a negative index counts from the end,
\* both indexes are clamped to [0, length], and the result is empty when
\* from is not before to.
Slice(s, from, to) ==
    LET rel(k) == IF k < 0 THEN Max2(Len(s) + k, 0) ELSE Min2(k, Len(s))
    IN SubSeq(s, rel(from) + 1, rel(to))

SplitInit ==
    /\ splitPc = "called"
    /\ text \in Texts
    /\ chunkSize \in 0..MaxChunkSize
    /\ overlap \in 0..MaxOverlap
    /\ start = 0
    /\ chunks = <<>>

\* const chunks = []; if (!text) return chunks; let start = 0;
SplitEnter ==
    /\ splitPc = "called"
    /\ splitPc' = IF text = <<>> THEN "returned" ELSE "test"
    /\ start' = 0
    /\ chunks' = <<>>
    /\ UNCHANGED <<text, chunkSize, overlap>>

\* while (start < text.length) ... return chunks;
SplitTest ==
    /\ splitPc = "test"
    /\ splitPc' = IF start < Len(text) THEN "body" ELSE "returned"
    /\ UNCHANGED <<text, chunkSize, overlap, start, chunks>>

\* end = Math.min(start + chunkSize, text.length);
\* chunks.push(text.slice(start, end)); start += chunkSize - overlap;
SplitBody ==
    /\ splitPc = "body"
    /\ LET end == Min2(start + chunkSize, Len(text))
       IN chunks' = IF Len(chunks) < MaxChunks
                    THEN Append(chunks, Slice(text, start, end))
                    ELSE chunks
    /\ start' = Max2(start + chunkSize - overlap, StartFloor)
    /\ splitPc' = "test"
    /\ UNCHANGED <<text, chunkSize, overlap>>

----------------------------------------------------------------------------
(* Specifications *)

Init ==
    /\ RunInit /\ CallIdle /\ SynIdle /\ NormIdle
    /\ RepIdle /\ SortIdle /\ GemIdle /\ SplitIdle

Next ==
    \/ NoComments /\ UNCHANGED <<callVars, synVars, normVars, auxVars>>
    \/ Prepare /\ UNCHANGED <<callVars, synVars, normVars, auxVars>>
    \/ StartWindow /\ UNCHANGED <<callVars, synVars, normVars, auxVars>>
    \/ (\E b \in inflight : BatchSettles(b)) /\ UNCHANGED <<callVars, synVars, normVars, auxVars>>
    \/ ProcessWindow /\ UNCHANGED <<callVars, synVars, normVars, auxVars>>
    \/ DelayElapsed /\ UNCHANGED <<callVars, synVars, normVars, auxVars>>
    \/ Respond /\ UNCHANGED <<callVars, synVars, normVars, auxVars>>

Spec == Init /\ [][Next]_vars

\* The steps the route takes by itself.  A pending engine call settles when
\* the provider answers or fails; the route sets no timer on it.
RouteStep ==
    (NoComments \/ Prepare \/ StartWindow \/ ProcessWindow \/ DelayElapsed \/ Respond)
        /\ UNCHANGED <<callVars, synVars, normVars, auxVars>>

SpecLive == Init /\ [][Next]_vars /\ WF_vars(RouteStep)

BatchInit ==
    /\ CallInit /\ RunIdle /\ SynIdle /\ NormIdle
    /\ RepIdle /\ SortIdle /\ GemIdle /\ SplitIdle

BatchNext == CallAnalyzeAxisBatch /\ UNCHANGED <<runVars, synVars, normVars, auxVars>>

SpecBatch == BatchInit /\ [][BatchNext]_vars

SynthInit ==
    /\ SynInit /\ RunIdle /\ CallIdle /\ NormIdle
    /\ RepIdle /\ SortIdle /\ GemIdle /\ SplitIdle

SynthNext ==
    \/ ApplySynthesis /\ UNCHANGED <<runVars, callVars, normVars, auxVars>>
    \/ ReapplySynthesis /\ UNCHANGED <<runVars, callVars, normVars, auxVars>>
    \/ CallSynthesizeBinaryStance /\ UNCHANGED <<runVars, callVars, normVars, auxVars>>

SpecSynth == SynthInit /\ [][SynthNext]_vars

ContainerInit ==
    /\ NormInit /\ RunIdle /\ CallIdle /\ SynIdle
    /\ RepIdle /\ SortIdle /\ GemIdle /\ SplitIdle

ContainerNext ==
    Normalize /\ UNCHANGED <<runVars, callVars, synVars, auxVars>>

SpecContainer == ContainerInit /\ [][ContainerNext]_vars

RepairSpecInit ==
    /\ RepairInit /\ RunIdle /\ CallIdle /\ SynIdle /\ NormIdle
    /\ SortIdle /\ GemIdle /\ SplitIdle

RepairNext ==
    CallRepairTruncatedJSON
        /\ UNCHANGED <<runVars, callVars, synVars, normVars, sortVars, gemVars, splitVars>>

SpecRepair == RepairSpecInit /\ [][RepairNext]_vars

SortSpecInit ==
    /\ SortInit /\ RunIdle /\ CallIdle /\ SynIdle /\ NormIdle
    /\ RepIdle /\ GemIdle /\ SplitIdle

SortNext ==
    CallSortCommentsByThreadOrder
        /\ UNCHANGED <<runVars, callVars, synVars, normVars, repVars, gemVars, splitVars>>

SpecSort == SortSpecInit /\ [][SortNext]_vars

GeminiSpecInit ==
    /\ GeminiInit /\ RunIdle /\ CallIdle /\ SynIdle /\ NormIdle
    /\ RepIdle /\ SortIdle /\ SplitIdle

GeminiNext ==
    \/ GeminiEmptyRequest
          /\ UNCHANGED <<runVars, callVars, synVars, normVars, repVars, sortVars, splitVars>>
    \/ GeminiAttempt
          /\ UNCHANGED <<runVars, callVars, synVars, normVars, repVars, sortVars, splitVars>>
    \/ GeminiBackoffElapsed
          /\ UNCHANGED <<runVars, callVars, synVars, normVars, repVars, sortVars, splitVars>>

\* Every provider call settles and every backoff timer fires.
SpecGemini == GeminiSpecInit /\ [][GeminiNext]_vars /\ WF_vars(GeminiNext)

SplitSpecInit ==
    /\ RunIdle /\ CallIdle /\ SynIdle /\ NormIdle /\ RepIdle /\ SortIdle /\ GemIdle
    /\ SplitInit

SplitNext ==
    \/ SplitEnter /\ UNCHANGED <<runVars, callVars, synVars, normVars, repVars, sortVars, gemVars>>
    \/ SplitTest /\ UNCHANGED <<runVars, callVars, synVars, normVars, repVars, sortVars, gemVars>>
    \/ SplitBody /\ UNCHANGED <<runVars, callVars, synVars, normVars, repVars, sortVars, gemVars>>

\* splitText is synchronous code: once called it keeps taking its next step.
SpecSplit == SplitSpecInit /\ [][SplitNext]_vars /\ WF_vars(SplitNext)

----------------------------------------------------------------------------
(* Properties *)

InRange(x) == 0 - One <= x /\ x <= One

Ids(s) == {s[k].id : k \in 1..Len(s)}

FailedBatches == {b \in DOMAIN results : results[b].settled /\ ~results[b].success}

IsPlaceholder(a) == a.score = 0 /\ a.label = "Unknown" /\ a.confidence = 0

\* C1: when a run has answered, the returned comment list has exactly one
\* element per input comment, whatever the batches' outcomes were.
C1_Completeness ==
    (pc = "done" /\ response.status = 200) =>
        /\ Len(response.comments) = Len(comments)
        /\ \A k \in 1..Len(comments) :
              Cardinality({j \in 1..Len(response.comments) :
                              response.comments[j].id = comments[k].id}) = 1

\* C2: a batch response holds exactly one analysis per requested comment, and
\* a requested comment without a reply entry gets a placeholder.
C2_OneAnalysisPerComment ==
    (callPc = "called" /\ callResult.kind = "return") =>
        /\ Len(callResult.analyses) = Len(callBatch)
        /\ \A k \in 1..Len(callBatch) :
              /\ Cardinality({j \in 1..Len(callResult.analyses) :
                     callResult.analyses[j].commentId = callBatch[k].id}) = 1
              /\ (callReply.kind = "ok"
                  /\ FirstIndexWithCommentId(callReply.items, callBatch[k].id) = NotFound)
                 => \A j \in 1..Len(callResult.analyses) :
                       callResult.analyses[j].commentId = callBatch[k].id
                          => IsPlaceholder(callResult.analyses[j])

\* C3: every analysis of a batch response carries the id of a requested comment.
C3_IdsFromBatch ==
    callPc = "called" =>
        \A j \in 1..Len(callResult.analyses) :
            callResult.analyses[j].commentId \in Ids(callBatch)

\* C4: when the provider call fails outright, the engine returns a partial
\* response of placeholders, one per requested comment, and does not throw.
C4_FailureIsPartialResponse ==
    (callPc = "called" /\ callReply.kind \in {"quota", "network", "unparsable"}) =>
        /\ callResult.kind = "return"
        /\ callResult.isPartial
        /\ Len(callResult.analyses) = Len(callBatch)
        /\ \A j \in 1..Len(callResult.analyses) : IsPlaceholder(callResult.analyses[j])

\* The number of batches whose results the "Process results" loop has handled.
Processed ==
    IF pc \in {"fetched", "idle"} THEN 0
    ELSE IF pc \in {"window", "await"} THEN i
    ELSE IF pc = "delay" THEN i + MAX_CONCURRENT_BATCHES
    ELSE Len(batches)

\* C5: a thrown batch call does not abort the run, and what the run has
\* recorded is, batch by batch in order, what each batch that returned
\* contributes on its own: the failure of one batch changes nothing for the
\* others.
C5_FailureContained ==
    /\ FailedBatches # {} => response.status # 500
    /\ response.status # 404 =>
          analyzedComments = Contributions(batches, results, 1, Min2(Processed, Len(batches)))
    /\ pc = "done" /\ response.status = 200 => response.comments = analyzedComments

\* A run of two windows has answered; the first batch threw, a sibling of its
\* window and the batch of the next window returned and are in the answer.
C5_Witness ==
    /\ pc = "done" /\ response.status = 200
    /\ Len(batches) > MAX_CONCURRENT_BATCHES
    /\ 1 \in FailedBatches
    /\ results[2].success /\ results[Len(batches)].success
    /\ \E k \in 1..Len(response.comments) : response.comments[k].id = batches[2][1].id
    /\ \E k \in 1..Len(response.comments) :
          response.comments[k].id = batches[Len(batches)][1].id

\* C6: if a batch call threw, the response is marked partial and the comments
\* of the failed batch are in it as placeholders.
C6_PartialOnThrow ==
    (pc = "done" /\ response.status = 200 /\ FailedBatches # {}) =>
        /\ response.isPartial
        /\ \A b \in FailedBatches : \A k \in 1..Len(batches[b]) :
              \E j \in 1..Len(response.comments) :
                  /\ response.comments[j].id = batches[b][k].id
                  /\ response.comments[j].sentiment = 0

\* C7: every result of a run has score and weightedScore within [-1, 1].
C7_ScoreBounds ==
    pc = "done" =>
        \A j \in 1..Len(response.comments) :
            /\ InRange(response.comments[j].sentiment)
            /\ InRange(response.comments[j].weightedScore)

\* C8: for a comment without likes, the weighted score is the score itself.
C8_ZeroLikesIdentity ==
    (callPc = "called" /\ callResult.kind = "return") =>
        \A j \in 1..Len(callResult.analyses) : \A k \in 1..Len(callBatch) :
            (callBatch[k].id = callResult.analyses[j].commentId
             /\ callBatch[k].likeCount = 0)
                => callResult.analyses[j].weightedScore = callResult.analyses[j].score

\* C9: applying the synthesis pass to its own output changes nothing.
C9_SynthesisIdempotent ==
    synPc = "synth_twice" => synTwice = synOnce

Inverse(direction) ==
    IF direction = "support" THEN "oppose"
    ELSE IF direction = "oppose" THEN "support"
    ELSE direction

\* C10: synthesizeBinaryStance is the transition table: neutral with
\* intensity 0 for unrelated, clarify and question; the parent's stance for
\* agree; the inverse direction with the parent's intensity for disagree.
C10_TransitionTable ==
    (synPc = "binary_out" /\ binRelation \in ReplyRelations) =>
        /\ binRelation \in {"unrelated", "clarify", "question"}
              => binOut = [direction |-> "neutral", intensity |-> 0]
        /\ binRelation = "agree" => binOut = binParent
        /\ binRelation = "disagree"
              => binOut = [direction |-> Inverse(binParent.direction),
                           intensity |-> binParent.intensity]
        /\ (binParent = [direction |-> "oppose", intensity |-> Tenth(8)]
            /\ binRelation = "disagree")
              => binOut = [direction |-> "support", intensity |-> Tenth(8)]
        /\ (binParent = [direction |-> "support", intensity |-> Tenth(6)]
            /\ binRelation = "agree")
              => binOut = [direction |-> "support", intensity |-> Tenth(6)]

\* The table has been applied to a parent opposing at 0.8 and a disagreeing reply.
C10_Witness ==
    /\ synPc = "binary_out"
    /\ binParent = [direction |-> "oppose", intensity |-> Tenth(8)]
    /\ binRelation = "disagree"
    /\ binOut.direction = "support"

----------------------------------------------------------------------------
(* Synthesis pass: replies against their parents *)

SynthesisRan == synPc \in {"synth_once", "synth_twice"}

\* The comment of the k-th analysis has a parent whose analysis is in the set.
HasParentResult(k) ==
    \E c \in 1..Len(synComments), p \in 1..Len(synAnalyses) :
        /\ synComments[c].id = synAnalyses[k].commentId
        /\ synComments[c].parentId # NoParent
        /\ synAnalyses[p].commentId = synComments[c].parentId

ParentResult(k) ==
    synAnalyses[CHOOSE p \in 1..Len(synAnalyses) :
        \E c \in 1..Len(synComments) :
            /\ synComments[c].id = synAnalyses[k].commentId
            /\ synAnalyses[p].commentId = synComments[c].parentId]

\* The comment of the k-th analysis names a parent that has no analysis in the set.
HasUnresolvedParent(k) ==
    /\ \E c \in 1..Len(synComments) :
          /\ synComments[c].id = synAnalyses[k].commentId
          /\ synComments[c].parentId # NoParent
    /\ ~HasParentResult(k)

TableDirection(parentDirection, relation) ==
    IF relation \in {"unrelated", "clarify", "question"} THEN "neutral"
    ELSE IF relation = "agree" THEN parentDirection
    ELSE Inverse(parentDirection)

TableIntensity(parentIntensity, relation) ==
    IF relation \in {"unrelated", "clarify", "question"} THEN 0
    ELSE parentIntensity

\* C11: after applyStanceSynthesis, every reply whose parent has a result in
\* the set and whose relation is one of the five recognized ones has the
\* direction and intensity the transition table gives for the parent's
\* direction and intensity, for every parent direction (neutral and unknown
\* included).
C11_TableApplied ==
    SynthesisRan =>
        \A k \in 1..Len(synAnalyses) :
            (/\ HasParentResult(k)
             /\ synAnalyses[k].replyRelation \in ReplyRelations
             /\ ParentResult(k).stanceDirection \in Directions)
            => /\ synOnce[k].stanceDirection =
                    TableDirection(ParentResult(k).stanceDirection,
                                   synAnalyses[k].replyRelation)
               /\ synOnce[k].stanceIntensity =
                    TableIntensity(OrZero(ParentResult(k).stanceIntensity),
                                   synAnalyses[k].replyRelation)

\* C12: after the synthesis pass, a reply with a resolved parent and a
\* relation outside the five recognized ones (such as partial_agree) has
\* direction unknown, intensity 0 and score 0.
C12_UnrecognizedRelation ==
    SynthesisRan =>
        \A k \in 1..Len(synAnalyses) :
            (/\ HasParentResult(k)
             /\ Truthy(synAnalyses[k].replyRelation)
             /\ synAnalyses[k].replyRelation \notin ReplyRelations)
            => /\ synOnce[k].stanceDirection = "unknown"
               /\ synOnce[k].stanceIntensity = 0
               /\ synOnce[k].score = 0

\* C13: a reply whose parentId matches no analysis of the set passed to the
\* synthesizer leaves the pass with every field of its pass-1 analysis
\* unchanged.
C13_UnresolvedParentUnchanged ==
    SynthesisRan =>
        \A k \in 1..Len(synAnalyses) :
            HasUnresolvedParent(k) => synOnce[k] = synAnalyses[k]

\* The pass has run over a reply that carries a relation and whose parent has
\* no analysis, next to a root that has one.
C13_Witness ==
    /\ synPc = "synth_once"
    /\ \E k \in 1..Len(synAnalyses) :
          /\ HasUnresolvedParent(k)
          /\ synAnalyses[k].replyRelation = "disagree"
          /\ synAnalyses[k].stanceDirection = "oppose"
          /\ synOnce[k] = synAnalyses[k]
    /\ \E r \in 1..Len(synAnalyses) : synAnalyses[r].stanceDirection = "support"

LabelOfDirection(direction) ==
    IF direction = "support" THEN "Support"
    ELSE IF direction = "oppose" THEN "Oppose"
    ELSE IF direction = "neutral" THEN "Neutral"
    ELSE "Unknown"

\* C14: every reply the synthesis pass corrected carries the label of its
\* corrected direction and a score equal to the direction multiplier (+1
\* support, -1 oppose, 0 otherwise) times its corrected intensity, for every
\* combination of parent label, parent direction and relation.
C14_LabelScoreConsistent ==
    SynthesisRan =>
        \A k \in 1..Len(synAnalyses) :
            (HasParentResult(k) /\ Truthy(synAnalyses[k].replyRelation))
            => /\ synOnce[k].label = LabelOfDirection(synOnce[k].stanceDirection)
               /\ synOnce[k].score =
                    DirMultiplier(synOnce[k].stanceDirection)
                        * synOnce[k].stanceIntensity

----------------------------------------------------------------------------
(* The run: synthesis, tiers, pairing, concurrency *)

RunSucceeded == pc = "done" /\ response.status = 200

\* The batch that holds the comment with this id.
BatchOf(id) ==
    CHOOSE b \in 1..Len(batches) : \E j \in 1..Len(batches[b]) : batches[b][j].id = id

\* The marks applyStanceSynthesis leaves on the evidence of a corrected reply.
SynthesisMarks == {"[Thread Match]", "Synthesized from parent"}

\* C15: the synthesis pass runs once after every batch has completed, over
\* the union of all batches' results; hence in the response of a run a reply
\* whose parent was classified in a different batch is corrected from that
\* parent's result.
C15_SynthesisAcrossBatches ==
    RunSucceeded =>
        \A c, p \in 1..Len(response.comments) :
            (/\ response.comments[c].parentId = response.comments[p].id
             /\ BatchOf(response.comments[c].id) # BatchOf(response.comments[p].id)
             /\ response.comments[c].replyRelation \in ReplyRelations)
            => /\ response.comments[c].axisEvidence # <<>>
               /\ response.comments[c].axisEvidence[1] \in SynthesisMarks
               /\ response.comments[c].label =
                    synthesizeStance(response.comments[p].label,
                                     response.comments[c].replyRelation)

\* C16: for every batchSize and richTierThreshold, the comment at position p
\* (from 0) of the likeCount-descending order is classified with the rich
\* schema if and only if p < richTierThreshold, and with the lite schema
\* otherwise.
C16_TierByPosition ==
    \A b \in 1..Len(batches), j \in 1..batchSize :
        (j <= Len(batches[b]) /\ results[b].settled)
        => LET p == (b - 1) * batchSize + (j - 1)
           IN /\ comments[p + 1] = batches[b][j]
              /\ (results[b].tier = "Rich") <=> (p < richTierThreshold)
              /\ (results[b].tier = "Lite") <=> (p >= richTierThreshold)

\* C17: in the final result of a run, the analysis attached to each comment
\* is the one whose commentId equals that comment's id, for every order of
\* the provider's reply and of top-level comments and replies in a batch.
\* (The response holds, per batch, the pairs Contribution builds from
\* batches[b] and results[b].result.analyses.)
C17_MatchedById ==
    RunSucceeded =>
        \A b \in 1..Len(batches) :
            results[b].success =>
                \A j \in 1..Min2(Len(batches[b]), Len(results[b].result.analyses)) :
                    results[b].result.analyses[j].commentId = batches[b][j].id

\* C18: at every moment of a run at most MAX_CONCURRENT_BATCHES batch calls
\* are in flight, and no batch of a window is started before every batch of
\* the preceding windows has completed (returned or failed) and the
\* inter-window delay has elapsed.
C18_BoundedConcurrency ==
    [][ /\ Cardinality(inflight') <= MAX_CONCURRENT_BATCHES
        /\ (inflight' \ inflight # {}) =>
              /\ pc = "window" /\ inflight = {}
              /\ \A s \in inflight', b \in 1..Len(batches) :
                    (b < s /\ b \notin inflight') => results[b].settled
        /\ (pc' = "window" /\ i' > 0) => (pc = "delay" /\ inflight = {}) ]_vars

\* The second window is in flight after a full first window has settled.
C18_Witness ==
    /\ pc = "await" /\ i = MAX_CONCURRENT_BATCHES
    /\ inflight = {MAX_CONCURRENT_BATCHES + 1}
    /\ \A b \in 1..MAX_CONCURRENT_BATCHES : results[b].settled

----------------------------------------------------------------------------
(* Container shapes *)

\* C19: for every array X of result items, the engine's container
\* normalization yields the item list X whether the payload is the bare array
\* X or an object holding X under the key analyses, comments or results.
C19_ContainerKeyIndependence ==
    (normPc = "normalized" /\ normPayload.container \in {"array"} \cup KeyContainers)
        => (~normOut.thrown /\ normOut.items = normPayload.items)

\* C20: a parsed payload that is a single object without the keys analyses,
\* comments and results is treated by the engine as a one-element result list:
\* the call returns, and its result holds the analysis made from that object.
C20_SingleObjectFallback ==
    (callPc = "called" /\ callReply.kind = "ok" /\ callReply.container = "single")
        => /\ callResult.kind = "return"
           /\ \E k \in 1..Len(callResult.analyses) :
                 /\ callResult.analyses[k].commentId = callReply.items[1].commentId
                 /\ ~IsPlaceholder(callResult.analyses[k])

----------------------------------------------------------------------------
(* Truncation repair *)

Digits == {"1", "2", "3", "4"}

\* Index after the string literal that starts at k - 1, 0 if it does not end.
RECURSIVE StringEnd(_, _)
StringEnd(s, k) ==
    IF k > Len(s) THEN 0
    ELSE IF s[k] = Backslash THEN StringEnd(s, k + 2)
    ELSE IF s[k] = Quote THEN k + 1
    ELSE StringEnd(s, k + 1)

\* Index after the JSON value that starts at or after `from`, 0 if there is none.
RECURSIVE ValueEnd(_, _)
RECURSIVE ElementsEnd(_, _)
RECURSIVE MembersEnd(_, _)
ValueEnd(s, from) ==
    LET k == SkipWs(s, from) IN
    IF At(s, k) = Quote THEN StringEnd(s, k + 1)
    ELSE IF At(s, k) \in Digits THEN k + 1
    ELSE IF At(s, k) = "[" THEN
        (IF At(s, SkipWs(s, k + 1)) = "]" THEN SkipWs(s, k + 1) + 1
         ELSE ElementsEnd(s, k + 1))
    ELSE IF At(s, k) = "{" THEN
        (IF At(s, SkipWs(s, k + 1)) = "}" THEN SkipWs(s, k + 1) + 1
         ELSE MembersEnd(s, k + 1))
    ELSE 0

ElementsEnd(s, from) ==
    LET v == ValueEnd(s, from) IN
    IF v = 0 THEN 0
    ELSE IF At(s, SkipWs(s, v)) = "," THEN ElementsEnd(s, SkipWs(s, v) + 1)
    ELSE IF At(s, SkipWs(s, v)) = "]" THEN SkipWs(s, v) + 1
    ELSE 0

MembersEnd(s, from) ==
    LET k == SkipWs(s, from)
        key == IF At(s, k) = Quote THEN StringEnd(s, k + 1) ELSE 0
        v == IF key # 0 /\ At(s, SkipWs(s, key)) = ":"
             THEN ValueEnd(s, SkipWs(s, key) + 1) ELSE 0
    IN IF v = 0 THEN 0
       ELSE IF At(s, SkipWs(s, v)) = "," THEN MembersEnd(s, SkipWs(s, v) + 1)
       ELSE IF At(s, SkipWs(s, v)) = "}" THEN SkipWs(s, v) + 1
       ELSE 0

ValidJSON(s) == ValueEnd(s, 1) # 0 /\ SkipWs(s, ValueEnd(s, 1)) = Len(s) + 1

\* Every bracket outside a string literal is closed by its own closer, and no
\* closer is without its opener.
RECURSIVE Balanced(_, _, _, _)
Balanced(s, k, open, inString) ==
    IF k > Len(s) THEN open = <<>> /\ ~inString
    ELSE IF s[k] = Backslash THEN Balanced(s, k + 2, open, inString)
    ELSE IF s[k] = Quote THEN Balanced(s, k + 1, open, ~inString)
    ELSE IF inString THEN Balanced(s, k + 1, open, inString)
    ELSE IF s[k] \in {"{", "["} THEN Balanced(s, k + 1, Append(open, s[k]), inString)
    ELSE IF s[k] \in {"}", "]"} THEN
        /\ open # <<>>
        /\ open[Len(open)] = (IF s[k] = "}" THEN "{" ELSE "[")
        /\ Balanced(s, k + 1, SubSeq(open, 1, Len(open) - 1), inString)
    ELSE Balanced(s, k + 1, open, inString)

\* The text is an array whose first element is complete and which was cut
\* off inside its second element.
CutInsideSecondElement(s) ==
    /\ At(s, 1) = "["
    /\ ValueEnd(s, 2) # 0
    /\ At(s, SkipWs(s, ValueEnd(s, 2))) = ","
    /\ SkipWs(s, SkipWs(s, ValueEnd(s, 2)) + 1) <= Len(s)
    /\ ValueEnd(s, SkipWs(s, ValueEnd(s, 2)) + 1) = 0

\* C21: for every JSON text cut off at an arbitrary point, the text
\* repairTruncatedJSON returns has every bracket opened outside a string
\* closed, innermost first; and for an array cut inside its second element
\* the returned text is valid JSON that still holds the first element.
C21_TruncationRepair ==
    repPc = "repaired" =>
        /\ Balanced(repOut, 1, <<>>, FALSE)
        /\ CutInsideSecondElement(repIn) =>
              /\ ValidJSON(repOut)
              /\ SubSeq(repOut, 1, ValueEnd(repIn, 2) - 1)
                    = SubSeq(repIn, 1, ValueEnd(repIn, 2) - 1)

----------------------------------------------------------------------------
(* Reconciliation of reply items *)

CallReturned == callPc = "called" /\ callResult.kind = "return" /\ callReply.kind = "ok"

\* The k-th analysis of the result was made from the j-th item of the reply.
MadeFrom(k, j) ==
    /\ callResult.analyses[k].commentId = callReply.items[j].commentId
    /\ ~IsPlaceholder(callResult.analyses[k])

LabelAndScoreOnly(item) ==
    /\ Truthy(item.label) /\ item.score # NoNum
    /\ item.stance_direction = NoStr /\ item.stance_intensity = NoNum

SignDirection(score) ==
    IF score > 0 THEN "support" ELSE IF score < 0 THEN "oppose" ELSE "neutral"

Abs(x) == IF x < 0 THEN 0 - x ELSE x

\* C22: for every lite-tier reply item that carries only label and score,
\* the resulting analysis has its direction derived from the sign of the
\* score and its intensity equal to the absolute value of the score.
C22_LiteReconciliation ==
    (CallReturned /\ callIsLite) =>
        \A k \in 1..Len(callResult.analyses), j \in 1..Len(callReply.items) :
            (MadeFrom(k, j) /\ LabelAndScoreOnly(callReply.items[j]))
            => /\ callResult.analyses[k].stanceDirection
                    = SignDirection(callReply.items[j].score)
               /\ callResult.analyses[k].stanceIntensity
                    = Abs(callReply.items[j].score)

\* The comment with this id is a top-level comment of the batch, so the
\* synthesis pass leaves its pass-1 analysis as it is.
TopLevelInBatch(id) ==
    \E c \in 1..Len(callBatch) : callBatch[c].id = id /\ callBatch[c].parentId = NoParent

\* C23: for every rich-tier reply item with stance_direction d and
\* stance_intensity i, the pass-1 analysis has score i for support, -i for
\* oppose and 0 for neutral or unknown, and the label derived from d,
\* whatever score or label field the item also carries.
C23_RichReconciliation ==
    (CallReturned /\ ~callIsLite) =>
        \A k \in 1..Len(callResult.analyses), j \in 1..Len(callReply.items) :
            (/\ MadeFrom(k, j)
             /\ TopLevelInBatch(callReply.items[j].commentId)
             /\ callReply.items[j].stance_direction \in Directions
             /\ callReply.items[j].stance_intensity \in 0..One)
            => /\ callResult.analyses[k].score
                    = DirMultiplier(callReply.items[j].stance_direction)
                        * callReply.items[j].stance_intensity
               /\ callResult.analyses[k].label
                    = LabelOfDirection(callReply.items[j].stance_direction)

----------------------------------------------------------------------------
(* Completion of a run *)

\* C24: a batch call that has not returned within timeoutMs is aborted and
\* replaced by placeholders, so every run eventually completes and returns a
\* response, even if a provider call never responds.
C24_EventualCompletion == <>(pc = "done")

----------------------------------------------------------------------------
(* Weighting after synthesis *)

\* The like-count weighting of the engine that was called.
Weighted(eng, score, likeCount) ==
    IF eng = "groq" THEN calculateWeightedScoreNormalized(score, likeCount)
    ELSE calculateWeightedScoreDamped(score, likeCount)

\* The synthesis pass has corrected this analysis.
Corrected(a) == a.axisEvidence # <<>> /\ a.axisEvidence[1] \in SynthesisMarks

\* C25: in every final result the weightedScore is the like-count weighting
\* applied to the final, post-synthesis score; a reply whose score the
\* synthesis corrected carries the weightedScore of the corrected score.
C25_WeightingFollowsSynthesis ==
    CallReturned =>
        \A k \in 1..Len(callResult.analyses), c \in 1..Len(callBatch) :
            (/\ callBatch[c].id = callResult.analyses[k].commentId
             /\ Corrected(callResult.analyses[k]))
            => callResult.analyses[k].weightedScore
                 = Weighted(callEngine, callResult.analyses[k].score,
                            callBatch[c].likeCount)

----------------------------------------------------------------------------
(* Thread ordering *)

\* Position of the comment with this id in a list (0 if absent).
PositionOf(s, id) ==
    IF \E k \in 1..Len(s) : s[k].id = id
    THEN CHOOSE k \in 1..Len(s) : s[k].id = id
    ELSE 0

\* C26: sortCommentsByThreadOrder returns a permutation of its input that
\* keeps the relative order inside the top-level group and inside the reply
\* group, and in which every comment whose parent is in the input comes
\* after that parent, for every comment graph, replies to replies included.
C26_ThreadOrder ==
    sortPc = "sorted" =>
        /\ Len(sortOut) = Len(sortIn)
        /\ \A k \in 1..Len(sortIn) : PositionOf(sortOut, sortIn[k].id) # 0
        /\ \A k \in 1..Len(sortOut) : sortOut[k] \in {sortIn[m] : m \in 1..Len(sortIn)}
        /\ \A a, b \in 1..Len(sortIn) :
              (a < b /\ (sortIn[a].parentId = NoParent <=> sortIn[b].parentId = NoParent))
              => PositionOf(sortOut, sortIn[a].id) < PositionOf(sortOut, sortIn[b].id)
        /\ \A k \in 1..Len(sortOut) :
              PositionOf(sortOut, sortOut[k].parentId) # 0
              => PositionOf(sortOut, sortOut[k].parentId) < k

----------------------------------------------------------------------------
(* Gemini retry loop *)

GeminiRetrySafety ==
    /\ calls <= maxRetries
    /\ gemPc # "thrown"
    /\ (gemLast.kind = "quota") => gemPc = "returned"
    /\ (gemPc = "returned" /\ gemLast.kind = "ok") => ~gemResult.isPartial
    /\ (gemPc = "returned" /\ gemLast.kind \notin {"ok", "none"}) =>
          /\ gemLast.kind = "quota" \/ attempts = maxRetries
          /\ gemResult.isPartial
          /\ Len(gemResult.analyses) = Len(gemBatch)
          /\ \A k \in 1..Len(gemBatch) :
                /\ gemResult.analyses[k].commentId = gemBatch[k].id
                /\ gemResult.analyses[k].score = 0
                /\ gemResult.analyses[k].weightedScore = 0
    /\ (gemPc \in {"attempt", "backoff"} /\ calls > 0) =>
          (gemLast.kind \notin {"ok", "quota"} /\ attempts = calls /\ attempts < maxRetries)

----------------------------------------------------------------------------
(* Frame of the synthesis pass *)

\* The comment of the k-th analysis is in the comment list.
Listed(k) == \E c \in 1..Len(synComments) : synComments[c].id = synAnalyses[k].commentId

TopLevel(k) ==
    \E c \in 1..Len(synComments) :
        synComments[c].id = synAnalyses[k].commentId /\ synComments[c].parentId = NoParent

\* C28: applyStanceSynthesis returns as many analyses as it receives, in the
\* same order and with the same commentIds, and returns unchanged every
\* top-level comment, every reply without a replyRelation and every analysis
\* whose commentId is not in the comment list.
C28_SynthesisFrame ==
    SynthesisRan =>
        /\ Len(synOnce) = Len(synAnalyses)
        /\ \A k \in 1..Len(synAnalyses) :
              /\ synOnce[k].commentId = synAnalyses[k].commentId
              /\ (TopLevel(k) \/ ~Truthy(synAnalyses[k].replyRelation) \/ ~Listed(k))
                    => synOnce[k] = synAnalyses[k]

\* The pass has run over an analysis with a relation whose comment is not in
\* the list, and has corrected another reply.
C28_Witness ==
    /\ synPc = "synth_once"
    /\ \E k \in 1..Len(synAnalyses) :
          /\ ~Listed(k) /\ synAnalyses[k].replyRelation = "agree"
          /\ synOnce[k] = synAnalyses[k]
    /\ \E m \in 1..Len(synAnalyses) : synOnce[m] # synAnalyses[m]

----------------------------------------------------------------------------
(* Aggregate of the response *)

\* C29: in the response of every run the three counts of the distribution are
\* finite non-negative integers, their sum is distribution.total, and
\* distribution.total is the number of analyzed comments, including the run in
\* which every batch failed and no comment was analyzed.
C29_AggregateConsistency ==
    RunSucceeded =>
        LET d == response.distribution
        IN /\ d.support # NaN /\ d.neutral # NaN /\ d.oppose # NaN
           /\ d.support >= 0 /\ d.neutral >= 0 /\ d.oppose >= 0
           /\ d.support + d.neutral + d.oppose = d.total
           /\ d.total = Len(response.comments)

----------------------------------------------------------------------------
(* Chunking *)

\* The chunks are pieces of the text of length at most chunkSize, taken at
\* offsets that never go back, and every character of the text is in one.
ChunksCoverText ==
    /\ \A k \in 1..Len(chunks) : Len(chunks[k]) <= chunkSize
    /\ \E off \in [1..Len(chunks) -> 0..Len(text)] :
          /\ \A k \in 1..Len(chunks) :
                /\ off[k] + Len(chunks[k]) <= Len(text)
                /\ chunks[k] = SubSeq(text, off[k] + 1, off[k] + Len(chunks[k]))
          /\ \A k \in 1..(Len(chunks) - 1) : off[k] <= off[k + 1]
          /\ \A p \in 1..Len(text) :
                \E k \in 1..Len(chunks) : off[k] < p /\ p <= off[k] + Len(chunks[k])

\* C30: splitText returns for every text, chunkSize and overlap; it returns no
\* chunk for an empty text, and otherwise chunks of length at most chunkSize
\* that appear in text order and together cover every character of the text.
C30_SplitTextTerminates ==
    /\ <>(splitPc = "returned")
    /\ [](splitPc = "returned" =>
            IF text = <<>> THEN chunks = <<>> ELSE ChunksCoverText)

====
